---- MODULE Spec2Model ----
(***************************************************************************)
(* A state-machine model of src/Fastsolver.cpp: the bitmask Solver         *)
(* (loadBoard, candidatesMask, solve with its recursive dfs), the          *)
(* randomized full-board generator (generateFullSolution) and the puzzle   *)
(* digger (generatePuzzle).  The recursion of dfs is an explicit stack of  *)
(* frames; every placement and every undo is a step of its own.            *)
(***************************************************************************)
EXTENDS Integers, Sequences, FiniteSets, TLC

\* ------------------------------------------------------------------------
\* Program constants
\* ------------------------------------------------------------------------
Side == 9
Box == 3
FullMask == 511

\* ------------------------------------------------------------------------
\* Bounds of the model
\* ------------------------------------------------------------------------
\* solve is called with countLimit in 0..MaxLimit
MaxLimit == 3
\* the input boards override one of the first NumOverride diagonal cells
NumOverride == 3
\* generateFullSolution is run with the random source seeded from 0..MaxSeed
MaxSeed == 11
\* generatePuzzle is run with the random source seeded from 0..MaxDigSeed
MaxDigSeed == 2

\* ------------------------------------------------------------------------
\* The random source: mt19937 is stood for by a linear congruential
\* generator, x' = (RngA * x + RngC) % RngM
\* ------------------------------------------------------------------------
RngA == 75
RngC == 74
RngM == 65537

Idx == 0..(Side - 1)
Cells == Side * Side

\* ------------------------------------------------------------------------
\* int arithmetic on bit masks, as the C++ operators compute it
\* ------------------------------------------------------------------------
RECURSIVE BitAnd(_, _)
BitAnd(x, y) ==
    IF x = 0 \/ y = 0 THEN 0
    ELSE (x % 2) * (y % 2) + 2 * BitAnd(x \div 2, y \div 2)

RECURSIVE BitOr(_, _)
BitOr(x, y) ==
    IF x = 0 THEN y
    ELSE IF y = 0 THEN x
    ELSE (IF x % 2 = 1 \/ y % 2 = 1 THEN 1 ELSE 0) + 2 * BitOr(x \div 2, y \div 2)

\* ~x of a two's complement int; \div and % round down, so that bit i of a
\* negative x is (x \div 2^i) % 2, as in its two's complement pattern
BitNot(x) == (-x) - 1

\* 1 << n
Shl1(n) == 2 ^ n

RECURSIVE popcount(_)
popcount(x) == IF x = 0 THEN 0 ELSE (x % 2) + popcount(x \div 2)

\* m & -m, for m > 0
RECURSIVE LowBit(_)
LowBit(m) == IF m % 2 = 1 THEN 1 ELSE 2 * LowBit(m \div 2)

\* __builtin_ctz, for x > 0
RECURSIVE ctz(_)
ctz(x) == IF x % 2 = 1 THEN 0 ELSE 1 + ctz(x \div 2)

\* The operators above on the 9-bit masks, tabulated once
\* (f @@ <<>> is f, enumerated)
MaskRange == 0..FullMask
OrTable == [x \in MaskRange |-> [y \in MaskRange |-> BitOr(x, y)] @@ <<>>] @@ <<>>
popcountTable == [x \in MaskRange |-> popcount(x)] @@ <<>>

\* ------------------------------------------------------------------------
\* Boards
\* ------------------------------------------------------------------------
blockIndex(r, c) == (r \div Box) * Box + (c \div Box)

ZeroBoard == [r \in Idx |-> [c \in Idx |-> 0]]
ZeroMasks == [i \in Idx |-> 0]

\* the cells (r,c) in the order of the loops "for r, for c"
RowMajor == [i \in 1..Cells |-> <<(i - 1) \div Side, (i - 1) % Side>>]

VARIABLES
    caller,       \* who uses the Solver: main or generatePuzzle
    b,            \* main: the Board handed to loadBoard
    loadOk,       \* main: what loadBoard returned
    board,        \* Solver::board
    rowMask,      \* Solver::rowMask
    colMask,      \* Solver::colMask
    blockMask,    \* Solver::blockMask
    empties,      \* Solver::empties
    countLimit,   \* solve: countLimit
    outCount,     \* solve: outCount
    saved,        \* solve: saved
    savedBoard,   \* solve: savedBoard
    stack,        \* solve: the frames of dfs that are in their while loop
    best,         \* solve: bestIdx, bestMask of the dfs invocation that scanned
    stop,         \* solve: what the last dfs invocation returned
    solveRet,     \* what solve returned
    rng,          \* the state of the random source
    genB,         \* generateFullSolution: b
    genRowMask,   \* generateFullSolution: rowMask
    genColMask,   \* generateFullSolution: colMask
    genBlockMask, \* generateFullSolution: blockMask
    genStack,     \* generateFullSolution: the frames of dfs in their for loop
    genBest,      \* generateFullSolution: bestIdx, bestMask after the scan
    genOk,        \* generateFullSolution: what the last dfs invocation returned
    solution,     \* generatePuzzle: solution
    puzzle,       \* generatePuzzle: puzzle
    positions,    \* generatePuzzle: positions
    pos,          \* generatePuzzle: how many positions the for loop has passed
    targetClues,  \* generatePuzzle: targetClues
    old,          \* generatePuzzle: old
    pc            \* the statement the program is at

solverVars == <<board, rowMask, colMask, blockMask, empties>>
solveVars == <<countLimit, outCount, saved, savedBoard, stack, best, stop, solveRet>>
mainVars == <<caller, b, loadOk>>
genVars == <<genB, genRowMask, genColMask, genBlockMask, genStack, genBest, genOk>>
digVars == <<solution, puzzle, positions, pos, targetClues, old>>

vars == <<mainVars, solverVars, solveVars, rng, genVars, digVars, pc>>

\* ------------------------------------------------------------------------
\* Loops
\* ------------------------------------------------------------------------
\* A loop "for (i = lo; i <= hi; ++i) acc = body(acc, i)" that ends early once
\* acc.left holds (a return or a break inside the body) is written, for each
\* loop again, as a recursion that splits lo..hi in halves, so that its
\* evaluation nests to the depth log(hi - lo); the first half is run to its
\* end before the second half starts.

\* ------------------------------------------------------------------------
\* Solver::loadBoard
\* ------------------------------------------------------------------------
\* A faulty loadCell, which does not look at the block: a description of what
\* loadBoard refuses has to tell it from loadCell.
loadCellRowCol(bd, acc, i) ==
    LET r == RowMajor[i][1]
        c == RowMajor[i][2]
        v == bd[r][c]
        bit == Shl1(v - 1)
        bi == blockIndex(r, c)
    IN  IF acc.left \/ v = 0 THEN acc
        ELSE IF \/ BitAnd(acc.rowMask[r], bit) # 0
                \/ BitAnd(acc.colMask[c], bit) # 0
        THEN [acc EXCEPT !.left = TRUE]
        ELSE [acc EXCEPT !.rowMask[r] = BitOr(@, bit),
                         !.colMask[c] = BitOr(@, bit),
                         !.blockMask[bi] = BitOr(@, bit)]

\* One iteration of the loop of lines 61-72, at cell number i (row-major);
\* left = TRUE once the loop was left by "return false".
loadCell(bd, acc, i) ==
    LET r == RowMajor[i][1]
        c == RowMajor[i][2]
        v == bd[r][c]
        bit == Shl1(v - 1)
        bi == blockIndex(r, c)
    IN  IF acc.left \/ v = 0 THEN acc
        ELSE IF \/ BitAnd(acc.rowMask[r], bit) # 0
                \/ BitAnd(acc.colMask[c], bit) # 0
                \/ BitAnd(acc.blockMask[bi], bit) # 0
        THEN [acc EXCEPT !.left = TRUE]
        ELSE [acc EXCEPT !.rowMask[r] = BitOr(@, bit),
                         !.colMask[c] = BitOr(@, bit),
                         !.blockMask[bi] = BitOr(@, bit)]

\* the loop of lines 61-72 over the cells lo..hi
RECURSIVE loadLoop(_, _, _, _)
loadLoop(bd, acc, lo, hi) ==
    IF lo > hi \/ acc.left THEN acc
    ELSE IF lo = hi THEN loadCell(bd, acc, lo)
    ELSE LET mid == (lo + hi) \div 2
         IN  CHOOSE last \in {loadLoop(bd, first, mid + 1, hi) :
                                 first \in {loadLoop(bd, acc, lo, mid)}} : TRUE

\* The Solver after loadBoard(bd): reset, board = b, the masks, the empties;
\* ok is what loadBoard returns.
loadBoard(bd) ==
    LET m == loadLoop(bd,
                      [left |-> FALSE, rowMask |-> ZeroMasks, colMask |-> ZeroMasks,
                       blockMask |-> ZeroMasks],
                      1, Cells)
    IN  [ok |-> ~m.left, board |-> bd, rowMask |-> m.rowMask,
         colMask |-> m.colMask, blockMask |-> m.blockMask,
         empties |-> IF m.left
                     THEN <<>>
                     ELSE SelectSeq(RowMajor, LAMBDA p : bd[p[1]][p[2]] = 0)]

\* ------------------------------------------------------------------------
\* Solver::candidatesMask
\* ------------------------------------------------------------------------
\* (~used) & 0x1FF
unusedTable == [used \in MaskRange |-> BitAnd(BitNot(used), FullMask)] @@ <<>>

candidatesMask(r, c) ==
    LET used == OrTable[OrTable[rowMask[r]][colMask[c]]][blockMask[blockIndex(r, c)]]
    IN  unusedTable[used]

\* ------------------------------------------------------------------------
\* Solver::solve: the MRV scan of one dfs invocation (lines 94-103)
\* ------------------------------------------------------------------------
\* A faulty scanCell, which passes over a cell without candidate.
scanCellNoDeadEnd(acc, i) ==
    LET r == empties[i + 1][1]
        c == empties[i + 1][2]
        mask == candidatesMask(r, c)
        cnt == popcountTable[mask]
    IN  IF acc.left \/ board[r][c] # 0 \/ mask = 0 THEN acc
        ELSE IF cnt < acc.bestCount
        THEN [acc EXCEPT !.bestCount = cnt, !.bestIdx = i, !.bestMask = mask,
                         !.left = (cnt = 1)]
        ELSE acc

\* One iteration of the for loop, at index i of empties.  left = TRUE once the
\* loop was left: by "return false" (dead = TRUE, line 100) or by the break on
\* a cell with one candidate (line 102).
scanCell(acc, i) ==
    LET r == empties[i + 1][1]
        c == empties[i + 1][2]
        mask == candidatesMask(r, c)
        cnt == popcountTable[mask]
    IN  IF acc.left \/ board[r][c] # 0 THEN acc
        ELSE IF mask = 0 THEN [acc EXCEPT !.left = TRUE, !.dead = TRUE]
        ELSE IF cnt < acc.bestCount
        THEN [acc EXCEPT !.bestCount = cnt, !.bestIdx = i, !.bestMask = mask,
                         !.left = (cnt = 1)]
        ELSE acc

NoBest == [left |-> FALSE, dead |-> FALSE, bestIdx |-> -1, bestCount |-> 10,
           bestMask |-> 0]

\* the loop of lines 95-103 over the indices lo..hi of empties
RECURSIVE scanLoop(_, _, _)
scanLoop(acc, lo, hi) ==
    IF lo > hi \/ acc.left THEN acc
    ELSE IF lo = hi THEN scanCell(acc, lo)
    ELSE LET mid == (lo + hi) \div 2
         IN  CHOOSE last \in {scanLoop(first, mid + 1, hi) :
                                 first \in {scanLoop(acc, lo, mid)}} : TRUE

scan == scanLoop(NoBest, 0, Len(empties) - 1)

\* ------------------------------------------------------------------------
\* The inputs: boards cut from a solved grid
\* ------------------------------------------------------------------------
Grid ==
    [r \in Idx |->
        [c \in Idx |->
            << <<1, 2, 3, 4, 5, 6, 7, 8, 9>>,
               <<4, 5, 6, 7, 8, 9, 1, 2, 3>>,
               <<7, 8, 9, 1, 2, 3, 4, 5, 6>>,
               <<2, 3, 1, 6, 7, 4, 8, 9, 5>>,
               <<8, 7, 5, 9, 1, 2, 3, 6, 4>>,
               <<6, 9, 4, 5, 3, 8, 2, 1, 7>>,
               <<3, 1, 7, 2, 6, 5, 9, 4, 8>>,
               <<5, 4, 2, 8, 9, 7, 6, 3, 1>>,
               <<9, 6, 8, 3, 4, 1, 5, 7, 2>> >>[r + 1][c + 1]]]

\* An order of the 81 cells: clearing the first k of them leaves a board with
\* one solution for k <= 56 and with several for k > 56.
ClearOrder ==
    << <<0,1>>, <<0,2>>, <<0,3>>, <<0,4>>, <<0,5>>, <<0,6>>, <<0,7>>, <<0,8>>,
       <<1,0>>, <<1,1>>, <<1,2>>, <<1,3>>, <<1,4>>, <<1,5>>, <<1,6>>, <<2,0>>,
       <<2,1>>, <<2,2>>, <<2,3>>, <<3,0>>, <<3,1>>, <<3,2>>, <<3,3>>, <<3,4>>,
       <<3,6>>, <<3,7>>, <<3,8>>, <<4,0>>, <<4,2>>, <<4,3>>, <<4,4>>, <<4,5>>,
       <<4,6>>, <<4,8>>, <<5,0>>, <<5,1>>, <<5,3>>, <<5,4>>, <<5,5>>, <<5,7>>,
       <<6,0>>, <<6,1>>, <<6,3>>, <<6,4>>, <<6,6>>, <<6,7>>, <<7,0>>, <<7,3>>,
       <<7,4>>, <<7,7>>, <<7,8>>, <<8,0>>, <<8,4>>, <<8,5>>, <<8,7>>, <<8,8>>,
       <<1,7>>, <<1,8>>, <<2,4>>, <<2,5>>, <<2,6>>, <<2,7>>, <<2,8>>, <<3,5>>,
       <<4,1>>, <<4,7>>, <<5,2>>, <<5,6>>, <<5,8>>, <<6,2>>, <<6,5>>, <<6,8>>,
       <<7,1>>, <<7,2>>, <<7,5>>, <<7,6>>, <<8,1>>, <<8,2>>, <<8,3>>, <<8,6>>,
       <<0,0>> >>

\* how many cells of ClearOrder an input board has cleared
ClearCounts == {0, 20, 40, 56, 72}

Cleared(k) ==
    [r \in Idx |-> [c \in Idx |->
        IF \E i \in 1..k : ClearOrder[i] = <<r, c>> THEN 0 ELSE Grid[r][c]]]

\* the cells (0,0), (4,4), (8,8), ... whose value an input board may replace
OverrideCell(j) == <<(4 * (j - 1)) % Side, (4 * (j - 1)) % Side>>

InputBoards ==
    { [Cleared(k) EXCEPT ![OverrideCell(j)[1]][OverrideCell(j)[2]] = v] :
        k \in ClearCounts, j \in 1..NumOverride, v \in 0..9 }

\* ------------------------------------------------------------------------
\* The Solver and its client (main, lines 330-342)
\* ------------------------------------------------------------------------
\* the variables of generateFullSolution and generatePuzzle before they run
GenIdle ==
    /\ genB = ZeroBoard
    /\ genRowMask = ZeroMasks
    /\ genColMask = ZeroMasks
    /\ genBlockMask = ZeroMasks
    /\ genStack = <<>>
    /\ genBest = NoBest
    /\ genOk = FALSE

DigIdle ==
    /\ solution = ZeroBoard
    /\ puzzle = ZeroBoard
    /\ positions = <<>>
    /\ pos = 0
    /\ old = 0

\* a Solver as its constructor leaves it (reset), and solve not yet called
SolverIdle ==
    /\ board = ZeroBoard
    /\ rowMask = ZeroMasks
    /\ colMask = ZeroMasks
    /\ blockMask = ZeroMasks
    /\ empties = <<>>
    /\ countLimit = 0
    /\ outCount = 0
    /\ saved = FALSE
    /\ savedBoard = ZeroBoard
    /\ stack = <<>>
    /\ best = NoBest
    /\ stop = FALSE
    /\ solveRet = FALSE

\* main, option 2: a parsed Board b and a fresh Solver (lines 330-337)
Init ==
    /\ caller = "main"
    /\ b \in InputBoards
    /\ loadOk = FALSE
    /\ SolverIdle
    /\ rng = 0
    /\ GenIdle
    /\ DigIdle
    /\ targetClues = 0
    /\ pc = "start"

\* solver.loadBoard(b)
LoadBoard ==
    /\ pc = "start"
    /\ LET s == loadBoard(b)
       IN  /\ board' = s.board
           /\ rowMask' = s.rowMask
           /\ colMask' = s.colMask
           /\ blockMask' = s.blockMask
           /\ empties' = s.empties
           /\ loadOk' = s.ok
    /\ pc' = "loaded"
    /\ UNCHANGED <<caller, b, solveVars, rng, genVars, digVars>>

\* solve(limit, cnt) is entered: lines 86-88, and the call of line 133
CallSolve ==
    /\ pc = "loaded"
    /\ \E limit \in 0..MaxLimit : countLimit' = limit
    /\ outCount' = 0
    /\ saved' = FALSE
    /\ stack' = <<>>
    /\ pc' = "dfs"
    /\ UNCHANGED <<mainVars, solverVars, savedBoard, best, stop, solveRet, rng,
                   genVars, digVars>>

\* a dfs invocation returns v to its caller: the frame on top of the stack
\* (line 122), or solve itself (line 133)
Return(v, stk) ==
    /\ stop' = v
    /\ stack' = stk
    /\ pc' = IF stk = <<>> THEN "unwound" ELSE "undo"

Top == stack[Len(stack)]
Pop == SubSeq(stack, 1, Len(stack) - 1)

\* line 92, and lines 94-103: the scan for the cell with the fewest candidates
DfsEnter ==
    /\ pc = "dfs"
    /\ IF outCount >= countLimit
       THEN /\ Return(TRUE, stack)
            /\ best' = best
       ELSE /\ best' = scan
            /\ pc' = "scanned"
            /\ UNCHANGED <<stack, stop>>
    /\ UNCHANGED <<mainVars, solverVars, countLimit, outCount, saved, savedBoard,
                   solveRet, rng, genVars, digVars>>

\* line 100: return false
DfsDeadEnd ==
    /\ pc = "scanned"
    /\ best.dead
    /\ Return(FALSE, stack)
    /\ UNCHANGED <<mainVars, solverVars, countLimit, outCount, saved, savedBoard,
                   best, solveRet, rng, genVars, digVars>>

\* lines 104-109
\* a faulty snapshot, which every solution overwrites
snapshotLatest == board

\* line 107: savedBoard after "if (!saved) { savedBoard = board; saved = true; }"
snapshot == IF ~saved THEN board ELSE savedBoard

DfsSolution ==
    /\ pc = "scanned"
    /\ ~best.dead
    /\ best.bestIdx = -1
    /\ outCount' = outCount + 1
    /\ saved' = TRUE
    /\ savedBoard' = snapshot
    /\ Return(outCount' >= countLimit, stack)
    /\ UNCHANGED <<mainVars, solverVars, countLimit, best, solveRet, rng,
                   genVars, digVars>>

\* lines 110-111: the invocation enters its while loop
DfsBranch ==
    /\ pc = "scanned"
    /\ ~best.dead
    /\ best.bestIdx # -1
    /\ stack' = Append(stack, [r |-> empties[best.bestIdx + 1][1],
                               c |-> empties[best.bestIdx + 1][2],
                               m |-> best.bestMask,
                               bit |-> 0])
    /\ pc' = "loop"
    /\ UNCHANGED <<mainVars, solverVars, countLimit, outCount, saved, savedBoard,
                   best, stop, solveRet, rng, genVars, digVars>>

\* lines 112-122: the next digit is placed and dfs is called
DfsPlace ==
    /\ pc = "loop"
    /\ Top.m # 0 /\ outCount < countLimit
    /\ LET r == Top.r
           c == Top.c
           lowbit == LowBit(Top.m)
           d == ctz(lowbit) + 1
           bit == Shl1(d - 1)
       IN  /\ stack' = [stack EXCEPT ![Len(stack)] =
                           [@ EXCEPT !.m = @ - lowbit, !.bit = bit]]
           /\ board' = [board EXCEPT ![r][c] = d]
           /\ rowMask' = [rowMask EXCEPT ![r] = BitOr(@, bit)]
           /\ colMask' = [colMask EXCEPT ![c] = BitOr(@, bit)]
           /\ blockMask' = [blockMask EXCEPT ![blockIndex(r, c)] = BitOr(@, bit)]
    /\ pc' = "dfs"
    /\ UNCHANGED <<mainVars, empties, countLimit, outCount, saved, savedBoard,
                   best, stop, solveRet, rng, genVars, digVars>>

\* lines 123-128: the placement is undone, whatever the call returned
DfsUndo ==
    /\ pc = "undo"
    /\ LET r == Top.r
           c == Top.c
           bit == Top.bit
       IN  /\ board' = [board EXCEPT ![r][c] = 0]
           /\ rowMask' = [rowMask EXCEPT ![r] = BitAnd(@, BitNot(bit))]
           /\ colMask' = [colMask EXCEPT ![c] = BitAnd(@, BitNot(bit))]
           /\ blockMask' = [blockMask EXCEPT ![blockIndex(r, c)] =
                               BitAnd(@, BitNot(bit))]
    /\ IF stop
       THEN Return(TRUE, Pop)
       ELSE /\ pc' = "loop"
            /\ UNCHANGED <<stack, stop>>
    /\ UNCHANGED <<mainVars, empties, countLimit, outCount, saved, savedBoard,
                   best, solveRet, rng, genVars, digVars>>

\* line 112 ends the loop, line 130
DfsExhausted ==
    /\ pc = "loop"
    /\ ~(Top.m # 0 /\ outCount < countLimit)
    /\ Return(FALSE, Pop)
    /\ UNCHANGED <<mainVars, solverVars, countLimit, outCount, saved, savedBoard,
                   best, solveRet, rng, genVars, digVars>>

\* a faulty restore, which leaves the board as the search has unwound it
unwoundBoard == board

\* line 134: board after "if (saved) board = savedBoard"
restoredBoard == IF saved THEN savedBoard ELSE board

\* lines 134-135
SolveReturn ==
    /\ pc = "unwound"
    /\ board' = restoredBoard
    /\ solveRet' = (outCount >= 1)
    /\ pc' = "returned"
    /\ UNCHANGED <<mainVars, rowMask, colMask, blockMask, empties, countLimit,
                   outCount, saved, savedBoard, stack, best, stop, rng, genVars,
                   digVars>>

Dfs == DfsEnter \/ DfsDeadEnd \/ DfsSolution \/ DfsBranch \/ DfsPlace \/ DfsUndo
          \/ DfsExhausted

Next == LoadBoard \/ CallSolve \/ Dfs \/ SolveReturn

Spec == Init /\ [][Next]_vars

\* ------------------------------------------------------------------------
\* shuffle(first, last, rng)
\* ------------------------------------------------------------------------
\* element i (from 0) is swapped with the element at a drawn index of 0..i
shuffleStep(acc, i) ==
    LET x == (RngA * acc.rng + RngC) % RngM
        j == x % (i + 1)
    IN  [acc EXCEPT !.rng = x,
                    !.seq = [@ EXCEPT ![i + 1] = acc.seq[j + 1],
                                      ![j + 1] = acc.seq[i + 1]]]

\* the swaps for the elements lo..hi
RECURSIVE shuffleLoop(_, _, _)
shuffleLoop(acc, lo, hi) ==
    IF lo > hi \/ acc.left THEN acc
    ELSE IF lo = hi THEN shuffleStep(acc, lo)
    ELSE LET mid == (lo + hi) \div 2
         IN  CHOOSE last \in {shuffleLoop(first, mid + 1, hi) :
                                 first \in {shuffleLoop(acc, lo, mid)}} : TRUE

\* the shuffled sequence (seq) and the random source after it (rng)
shuffle(seq, x) ==
    shuffleLoop([seq |-> seq, rng |-> x, left |-> FALSE], 1, Len(seq) - 1)

\* ------------------------------------------------------------------------
\* generateFullSolution
\* ------------------------------------------------------------------------
\* One iteration of the for loop of lines 199-207, at index i of empties,
\* which holds all 81 cells.
genScanCell(acc, i) ==
    LET r == RowMajor[i + 1][1]
        c == RowMajor[i + 1][2]
        used == OrTable[OrTable[genRowMask[r]][genColMask[c]]][genBlockMask[blockIndex(r, c)]]
        mask == unusedTable[used]
        cnt == popcountTable[mask]
    IN  IF acc.left \/ genB[r][c] # 0 THEN acc
        ELSE IF cnt = 0 THEN [acc EXCEPT !.left = TRUE, !.dead = TRUE]
        ELSE IF cnt < acc.bestCount
        THEN [acc EXCEPT !.bestCount = cnt, !.bestIdx = i, !.bestMask = mask,
                         !.left = (cnt = 1)]
        ELSE acc

\* the loop of lines 199-207 over the indices lo..hi of empties
RECURSIVE genScanLoop(_, _, _)
genScanLoop(acc, lo, hi) ==
    IF lo > hi \/ acc.left THEN acc
    ELSE IF lo = hi THEN genScanCell(acc, lo)
    ELSE LET mid == (lo + hi) \div 2
         IN  CHOOSE last \in {genScanLoop(first, mid + 1, hi) :
                                 first \in {genScanLoop(acc, lo, mid)}} : TRUE

genScan == genScanLoop(NoBest, 0, Cells - 1)

\* line 212: the digits of mask m, lowest first
RECURSIVE digitsOf(_)
digitsOf(m) ==
    IF m = 0 THEN <<>>
    ELSE LET lb == LowBit(m) IN <<ctz(lb) + 1>> \o digitsOf(m - lb)

\* digitsOf, tabulated
digitsTable == [m \in MaskRange |-> digitsOf(m)] @@ <<>>

\* generateFullSolution is entered (lines 192-195) with the random source
\* seeded from 0..MaxSeed, and calls dfs (line 229)
InitGen ==
    /\ caller = "none"
    /\ b = ZeroBoard
    /\ loadOk = FALSE
    /\ SolverIdle
    /\ rng \in 0..MaxSeed
    /\ GenIdle
    /\ DigIdle
    /\ targetClues = 0
    /\ pc = "gen_dfs"

\* a dfs invocation returns v: to line 220 of its caller, or to line 229
GenReturns(v, stk) ==
    /\ genOk' = v
    /\ genStack' = stk
    /\ pc' = IF stk = <<>> THEN "gen_unwound" ELSE "gen_back"

GenTop == genStack[Len(genStack)]
GenPop == SubSeq(genStack, 1, Len(genStack) - 1)

\* lines 198-207
GenScan ==
    /\ pc = "gen_dfs"
    /\ genBest' = genScan
    /\ pc' = "gen_scanned"
    /\ UNCHANGED <<mainVars, solverVars, solveVars, rng, genB, genRowMask,
                   genColMask, genBlockMask, genStack, genOk, digVars>>

\* line 205: return false
GenDeadEnd ==
    /\ pc = "gen_scanned"
    /\ genBest.dead
    /\ GenReturns(FALSE, genStack)
    /\ UNCHANGED <<mainVars, solverVars, solveVars, rng, genB, genRowMask,
                   genColMask, genBlockMask, genBest, digVars>>

\* line 208: return true
GenFull ==
    /\ pc = "gen_scanned"
    /\ ~genBest.dead
    /\ genBest.bestIdx = -1
    /\ GenReturns(TRUE, genStack)
    /\ UNCHANGED <<mainVars, solverVars, solveVars, rng, genB, genRowMask,
                   genColMask, genBlockMask, genBest, digVars>>

\* lines 209-213: the candidate digits, shuffled
GenBranch ==
    /\ pc = "gen_scanned"
    /\ ~genBest.dead
    /\ genBest.bestIdx # -1
    /\ LET sh == shuffle(digitsTable[genBest.bestMask], rng)
       IN  /\ rng' = sh.rng
           /\ genStack' = Append(genStack,
                                 [r |-> RowMajor[genBest.bestIdx + 1][1],
                                  c |-> RowMajor[genBest.bestIdx + 1][2],
                                  digits |-> sh.seq,
                                  k |-> 0])
    /\ pc' = "gen_loop"
    /\ UNCHANGED <<mainVars, solverVars, solveVars, genB, genRowMask, genColMask,
                   genBlockMask, genBest, genOk, digVars>>

\* lines 214-220: the next digit of digits is placed and dfs is called
\* a faulty placing, which does not mark the digit in the mask of the block
GenPlaceNoBlock ==
    /\ pc = "gen_loop"
    /\ GenTop.k < Len(GenTop.digits)
    /\ LET r == GenTop.r
           c == GenTop.c
           d == GenTop.digits[GenTop.k + 1]
           bit == Shl1(d - 1)
       IN  /\ genStack' = [genStack EXCEPT ![Len(genStack)].k = @ + 1]
           /\ genB' = [genB EXCEPT ![r][c] = d]
           /\ genRowMask' = [genRowMask EXCEPT ![r] = BitOr(@, bit)]
           /\ genColMask' = [genColMask EXCEPT ![c] = BitOr(@, bit)]
    /\ pc' = "gen_dfs"
    /\ UNCHANGED <<mainVars, solverVars, solveVars, rng, genBlockMask, genBest,
                   genOk, digVars>>

GenPlace ==
    /\ pc = "gen_loop"
    /\ GenTop.k < Len(GenTop.digits)
    /\ LET r == GenTop.r
           c == GenTop.c
           d == GenTop.digits[GenTop.k + 1]
           bit == Shl1(d - 1)
       IN  /\ genStack' = [genStack EXCEPT ![Len(genStack)].k = @ + 1]
           /\ genB' = [genB EXCEPT ![r][c] = d]
           /\ genRowMask' = [genRowMask EXCEPT ![r] = BitOr(@, bit)]
           /\ genColMask' = [genColMask EXCEPT ![c] = BitOr(@, bit)]
           /\ genBlockMask' = [genBlockMask EXCEPT ![blockIndex(r, c)] =
                                  BitOr(@, bit)]
    /\ pc' = "gen_dfs"
    /\ UNCHANGED <<mainVars, solverVars, solveVars, rng, genBest, genOk, digVars>>

\* line 220: if (dfs()) return true
GenPropagate ==
    /\ pc = "gen_back"
    /\ genOk
    /\ GenReturns(TRUE, GenPop)
    /\ UNCHANGED <<mainVars, solverVars, solveVars, rng, genB, genRowMask,
                   genColMask, genBlockMask, genBest, digVars>>

\* lines 221-224: dfs returned false, the placement is undone
GenUndo ==
    /\ pc = "gen_back"
    /\ ~genOk
    /\ LET r == GenTop.r
           c == GenTop.c
           d == GenTop.digits[GenTop.k]
           bit == Shl1(d - 1)
       IN  /\ genB' = [genB EXCEPT ![r][c] = 0]
           /\ genRowMask' = [genRowMask EXCEPT ![r] = BitAnd(@, BitNot(bit))]
           /\ genColMask' = [genColMask EXCEPT ![c] = BitAnd(@, BitNot(bit))]
           /\ genBlockMask' = [genBlockMask EXCEPT ![blockIndex(r, c)] =
                                  BitAnd(@, BitNot(bit))]
    /\ pc' = "gen_loop"
    /\ UNCHANGED <<mainVars, solverVars, solveVars, rng, genStack, genBest, genOk,
                   digVars>>

\* the for loop of line 214 is over: line 226
GenExhausted ==
    /\ pc = "gen_loop"
    /\ GenTop.k >= Len(GenTop.digits)
    /\ GenReturns(FALSE, GenPop)
    /\ UNCHANGED <<mainVars, solverVars, solveVars, rng, genB, genRowMask,
                   genColMask, genBlockMask, genBest, digVars>>

\* lines 229-231: b is returned, or generateFullSolution(rng) is called again
GenReturn ==
    /\ pc = "gen_unwound"
    /\ IF genOk
       THEN /\ pc' = "generated"
            /\ UNCHANGED genVars
       ELSE /\ genB' = ZeroBoard
            /\ genRowMask' = ZeroMasks
            /\ genColMask' = ZeroMasks
            /\ genBlockMask' = ZeroMasks
            /\ genStack' = <<>>
            /\ pc' = "gen_dfs"
            /\ UNCHANGED <<genBest, genOk>>
    /\ UNCHANGED <<mainVars, solverVars, solveVars, rng, digVars>>

Gen == GenScan \/ GenDeadEnd \/ GenFull \/ GenBranch \/ GenPlace \/ GenPropagate
          \/ GenUndo \/ GenExhausted \/ GenReturn

GenSpec == InitGen /\ [][Gen]_vars

\* the random source takes no step of its own: whatever is enabled is run
GenFairSpec == GenSpec /\ WF_vars(Gen)

\* ------------------------------------------------------------------------
\* generatePuzzle
\* ------------------------------------------------------------------------
\* the values difficultyToClues returns for "easy" and "hard", and the ends
\* of the range it clamps a number of clues to (lines 264-270)
Targets == {17, 28, 40, 81}

\* lines 243-244
filledCells(p) == Cardinality({i \in 1..Cells : p[RowMajor[i][1]][RowMajor[i][2]] # 0})

\* faulty conditions of the break: one clue early, and one clue late
reachedTargetEarly(p, t) == filledCells(p) <= t + 1

reachedTargetLate(p, t) == filledCells(p) < t

\* line 245: the condition of the break
reachedTarget(p, t) == filledCells(p) <= t

\* generatePuzzle(rng, targetClues) is entered and calls generateFullSolution
InitDig ==
    /\ caller = "generatePuzzle"
    /\ b = ZeroBoard
    /\ loadOk = FALSE
    /\ SolverIdle
    /\ rng \in 0..MaxDigSeed
    /\ GenIdle
    /\ DigIdle
    /\ targetClues \in Targets
    /\ pc = "gen_dfs"

\* lines 235-241
DigStart ==
    /\ pc = "generated"
    /\ caller = "generatePuzzle"
    /\ solution' = genB
    /\ puzzle' = genB
    /\ LET sh == shuffle(RowMajor, rng)
       IN  /\ positions' = sh.seq
           /\ rng' = sh.rng
    /\ pos' = 0
    /\ pc' = "dig_loop"
    /\ UNCHANGED <<mainVars, solverVars, solveVars, genVars, targetClues, old>>

\* the for loop of line 242 has passed every position
DigExhausted ==
    /\ pc = "dig_loop"
    /\ pos >= Len(positions)
    /\ pc' = "dug"
    /\ UNCHANGED <<mainVars, solverVars, solveVars, rng, genVars, digVars>>

\* lines 243-245: break
DigBreak ==
    /\ pc = "dig_loop"
    /\ pos < Len(positions)
    /\ reachedTarget(puzzle, targetClues)
    /\ pc' = "dug"
    /\ UNCHANGED <<mainVars, solverVars, solveVars, rng, genVars, digVars>>

\* lines 243-253: the clue at the next position is cleared, the puzzle is
\* loaded and countSolutions(2) is called
DigTry ==
    /\ pc = "dig_loop"
    /\ pos < Len(positions)
    /\ ~reachedTarget(puzzle, targetClues)
    /\ LET r == positions[pos + 1][1]
           c == positions[pos + 1][2]
           cleared == [puzzle EXCEPT ![r][c] = 0]
           s == loadBoard(cleared)
       IN  IF puzzle[r][c] = 0
           THEN /\ pos' = pos + 1
                /\ pc' = "dig_loop"
                /\ UNCHANGED <<solverVars, solveVars, puzzle, old>>
           ELSE /\ old' = puzzle[r][c]
                /\ board' = s.board
                /\ rowMask' = s.rowMask
                /\ colMask' = s.colMask
                /\ blockMask' = s.blockMask
                /\ empties' = s.empties
                /\ IF ~s.ok
                   THEN /\ puzzle' = puzzle
                        /\ pos' = pos + 1
                        /\ pc' = "dig_loop"
                        /\ UNCHANGED solveVars
                   ELSE /\ puzzle' = cleared
                        /\ pos' = pos
                        /\ countLimit' = 2
                        /\ outCount' = 0
                        /\ saved' = FALSE
                        /\ stack' = <<>>
                        /\ pc' = "dfs"
                        /\ UNCHANGED <<savedBoard, best, stop, solveRet>>
    /\ UNCHANGED <<mainVars, rng, genVars, solution, positions, targetClues>>

\* a faulty test of the count, which accepts a second solution
uniqueOrMore(cnt) == cnt >= 1

\* line 254: "if (cnt != 1)" puts the clue back; the removal stays otherwise
unique(cnt) == cnt = 1

\* lines 253-256: countSolutions has returned cnt
DigCheck ==
    /\ pc = "returned"
    /\ caller = "generatePuzzle"
    /\ LET r == positions[pos + 1][1]
           c == positions[pos + 1][2]
           cnt == outCount
       IN  puzzle' = IF ~unique(cnt) THEN [puzzle EXCEPT ![r][c] = old] ELSE puzzle
    /\ pos' = pos + 1
    /\ pc' = "dig_loop"
    /\ UNCHANGED <<mainVars, solverVars, solveVars, rng, genVars, solution,
                   positions, targetClues, old>>

Dig == DigStart \/ DigExhausted \/ DigBreak \/ DigTry \/ DigCheck

DigNext == Gen \/ Dig \/ Dfs \/ SolveReturn

DigSpec == InitDig /\ [][DigNext]_vars

\* ------------------------------------------------------------------------
\* What the claims speak of: Sudoku itself, stated on sets of digits and
\* without the masks
\* ------------------------------------------------------------------------
Digits == 1..Side

RowOf(g, r) == {g[r][c] : c \in Idx}
ColOf(g, c) == {g[r][c] : r \in Idx}
BlockOf(g, k) == {g[r][c] : r \in {x \in Idx : x \div Box = k \div Box},
                            c \in {x \in Idx : x \div Box = k % Box}}

\* g has no empty cell and each digit once in every row, column and block
IsSolved(g) ==
    \A i \in Idx : RowOf(g, i) = Digits /\ ColOf(g, i) = Digits /\ BlockOf(g, i) = Digits

\* g agrees with every clue of bd
Extends(g, bd) == \A r, c \in Idx : bd[r][c] # 0 => g[r][c] = bd[r][c]

\* two cells of bd in one row, column or block hold the same digit
SameUnit(p, q) ==
    \/ p[1] = q[1]
    \/ p[2] = q[2]
    \/ blockIndex(p[1], p[2]) = blockIndex(q[1], q[2])

HasConflict(bd) ==
    \E i, j \in 1..Cells :
        /\ i < j
        /\ bd[RowMajor[i][1]][RowMajor[i][2]] # 0
        /\ bd[RowMajor[i][1]][RowMajor[i][2]] = bd[RowMajor[j][1]][RowMajor[j][2]]
        /\ SameUnit(RowMajor[i], RowMajor[j])

\* the empty cells of bd, each with the digits that are not yet in its row,
\* column or block
FreeDigits(bd) ==
    LET open == {p \in Idx \X Idx : bd[p[1]][p[2]] = 0}
        rows == [i \in Idx |-> RowOf(bd, i)] @@ <<>>
        cols == [i \in Idx |-> ColOf(bd, i)] @@ <<>>
        blocks == [i \in Idx |-> BlockOf(bd, i)] @@ <<>>
    IN  [p \in open |->
            Digits \ (rows[p[1]] \cup cols[p[2]] \cup blocks[blockIndex(p[1], p[2])])]
        @@ <<>>

\* the fewest free digits any empty cell has
Fewest(free) ==
    LET sizes == {Cardinality(free[p]) : p \in DOMAIN free}
    IN  CHOOSE n \in sizes : \A m \in sizes : n <= m

\* the first cell, in the order of the rows, with the fewest free digits
FirstFewest(free) ==
    LET n == Fewest(free)
        few == {p \in DOMAIN free : Cardinality(free[p]) = n}
    IN  CHOOSE p \in few : \A q \in few : Side * p[1] + p[2] <= Side * q[1] + q[2]

Least(ds) == CHOOSE d \in ds : \A e \in ds : d <= e

\* no board: what a board without completion settles to
NoBoard == <<>>

\* bd with every cell of cells filled with its one free digit
Fill(bd, free, cells) ==
    [r \in Idx |->
        [c \in Idx |-> IF <<r, c>> \in cells THEN Least(free[<<r, c>>]) ELSE bd[r][c]]
        @@ <<>>] @@ <<>>

\* A board without conflict with every cell filled that has one free digit
\* only, again and again until no such cell is left; NoBoard when a cell is
\* left without a free digit or two cells of a unit need the same digit. The
\* board has the completions of bd.
RECURSIVE Settle(_)
Settle(bd) ==
    LET free == FreeDigits(bd)
        forced == {p \in DOMAIN free : Cardinality(free[p]) = 1}
    IN  IF \E p \in DOMAIN free : free[p] = {} THEN NoBoard
        ELSE IF forced = {} THEN bd
        ELSE IF \E p, q \in forced : p # q /\ SameUnit(p, q) /\ free[p] = free[q]
             THEN NoBoard
        ELSE Settle(Fill(bd, free, forced))

\* The number of valid completions of a board without conflict, counted up to
\* cap: the first cell with the fewest free digits is filled in every way.
RECURSIVE Completions(_, _)
RECURSIVE CompletionsWith(_, _, _, _)
Completions(bd, cap) ==
    LET sb == Settle(bd)
        free == FreeDigits(sb)
        cell == FirstFewest(free)
    IN  IF cap = 0 \/ sb = NoBoard THEN 0
        ELSE IF DOMAIN free = {} THEN 1
        ELSE CompletionsWith(sb, cell, free[cell], cap)

CompletionsWith(bd, cell, ds, cap) ==
    IF ds = {} \/ cap = 0 THEN 0
    ELSE LET d == Least(ds)
             n == Completions([bd EXCEPT ![cell[1]][cell[2]] = d], cap)
         IN  n + CompletionsWith(bd, cell, ds \ {d}, cap - n)

\* the number of valid completions of bd, counted up to cap
NumSolutions(bd, cap) == IF HasConflict(bd) THEN 0 ELSE Completions(bd, cap)

\* The first completion of a board without conflict that a depth-first search
\* reaches which fills the first cell with the fewest free digits, trying its
\* digits in ascending order; NoBoard when there is none.
RECURSIVE FirstCompletion(_)
RECURSIVE FirstCompletionWith(_, _, _)
FirstCompletion(bd) ==
    LET sb == Settle(bd)
        free == FreeDigits(sb)
        cell == FirstFewest(free)
    IN  IF sb = NoBoard THEN NoBoard
        ELSE IF DOMAIN free = {} THEN sb
        ELSE FirstCompletionWith(sb, cell, free[cell])

FirstCompletionWith(bd, cell, ds) ==
    IF ds = {} THEN NoBoard
    ELSE LET d == Least(ds)
             g == FirstCompletion([bd EXCEPT ![cell[1]][cell[2]] = d])
         IN  IF g # NoBoard THEN g ELSE FirstCompletionWith(bd, cell, ds \ {d})

\* the masks say exactly which digits the rows, columns and blocks of board hold
MasksMatchBoard ==
    \A i \in Idx, d \in Digits :
        /\ (BitAnd(rowMask[i], Shl1(d - 1)) # 0) <=> (d \in RowOf(board, i))
        /\ (BitAnd(colMask[i], Shl1(d - 1)) # 0) <=> (d \in ColOf(board, i))
        /\ (BitAnd(blockMask[i], Shl1(d - 1)) # 0) <=> (d \in BlockOf(board, i))

\* the cell at index i (from 1) of empties is empty and has no / one candidate
NoCandidate(i) ==
    /\ board[empties[i][1]][empties[i][2]] = 0
    /\ candidatesMask(empties[i][1], empties[i][2]) = 0

OneCandidate(i) ==
    /\ board[empties[i][1]][empties[i][2]] = 0
    /\ popcount(candidatesMask(empties[i][1], empties[i][2])) = 1

\* the dfs invocation that scanned returns false and has placed nothing
ReturnsDeadEnd ==
    /\ board' = board
    /\ pc' \in {"undo", "unwound"}
    /\ stop' = FALSE

\* a clue of p cannot be cleared without p getting a second solution
Irreducible(p) ==
    \A r, c \in Idx : p[r][c] # 0 => NumSolutions([p EXCEPT ![r][c] = 0], 2) # 1

\* ------------------------------------------------------------------------
\* C1
\* ------------------------------------------------------------------------
\* C1: when loadBoard accepted b and b has exactly one valid completion,
\* solve(2) has counted 1, returned true and left that completion in board.
C1_UniqueSolved ==
    (pc = "returned" /\ loadOk /\ countLimit = 2 /\ NumSolutions(b, 2) = 1)
        => /\ outCount = 1
           /\ solveRet
           /\ IsSolved(board)
           /\ Extends(board, b)

\* solve(2) has returned from a board with one completion and 56 empty cells
C1_Witness ==
    /\ pc = "returned"
    /\ caller = "main"
    /\ loadOk
    /\ countLimit = 2
    /\ Len(empties) >= 56
    /\ outCount = 1
    /\ NumSolutions(b, 2) = 1

\* ------------------------------------------------------------------------
\* C2
\* ------------------------------------------------------------------------
\* C2: when loadBoard accepted b and b has two or more valid completions,
\* solve(2) has counted exactly 2 and left in board the completion that the
\* search (fewest candidates first, digits ascending) reaches first: a solved
\* grid that agrees with every clue of b.
C2_FirstOfSeveral ==
    (pc = "returned" /\ loadOk /\ countLimit = 2 /\ NumSolutions(b, 2) = 2)
        => /\ outCount = 2
           /\ board = FirstCompletion(b)
           /\ IsSolved(board)
           /\ Extends(board, b)

\* solve(2) has returned from a board with clues and several completions
C2_Witness ==
    /\ pc = "returned"
    /\ caller = "main"
    /\ loadOk
    /\ countLimit = 2
    /\ outCount = 2
    /\ Len(empties) < Cells
    /\ NumSolutions(b, 2) = 2

\* ------------------------------------------------------------------------
\* C3
\* ------------------------------------------------------------------------
\* C3: when b has no valid completion, solve (with any limit) has counted 0,
\* returned false, and board is b, the board that was loaded.
C3_NoSolutionNoBoard ==
    (pc = "returned" /\ caller = "main" /\ NumSolutions(b, 1) = 0)
        => /\ outCount = 0
           /\ ~solveRet
           /\ board = b

\* the same for the boards that loadBoard accepted
C3_AcceptedNoSolution ==
    (pc = "returned" /\ caller = "main" /\ loadOk /\ NumSolutions(b, 1) = 0)
        => /\ outCount = 0
           /\ ~solveRet
           /\ board = b

\* ------------------------------------------------------------------------
\* C4
\* ------------------------------------------------------------------------
\* C4: loadBoard returns false exactly for the boards in which two cells of
\* one row, one column or one block hold the same digit.
C4_LoadFailsIffConflict ==
    (pc = "loaded") => (loadOk <=> ~HasConflict(b))

\* loadBoard has refused a board whose only conflicts are inside a block
C4_Witness ==
    /\ pc = "loaded"
    /\ ~loadOk
    /\ \A i, j \in 1..Cells :
          (/\ i < j
           /\ b[RowMajor[i][1]][RowMajor[i][2]] # 0
           /\ b[RowMajor[i][1]][RowMajor[i][2]] = b[RowMajor[j][1]][RowMajor[j][2]])
              => (RowMajor[i][1] # RowMajor[j][1] /\ RowMajor[i][2] # RowMajor[j][2])

\* ------------------------------------------------------------------------
\* C5
\* ------------------------------------------------------------------------
\* C5: at the start of every iteration of the digging loop, and when
\* generatePuzzle returns, the puzzle has exactly one solution.
C5_PuzzleUnique ==
    (pc \in {"dig_loop", "dug"}) => NumSolutions(puzzle, 2) = 1

\* generatePuzzle returns a puzzle from which it has cleared 41 clues or more
C5_Witness ==
    /\ pc = "dug"
    /\ filledCells(puzzle) <= 40
    /\ NumSolutions(puzzle, 2) = 1

\* ------------------------------------------------------------------------
\* C6
\* ------------------------------------------------------------------------
\* C6, as claimed: the puzzle generatePuzzle returns has at most targetClues
\* nonzero cells.
C6_AtMostTarget ==
    (pc = "dug") => filledCells(puzzle) <= targetClues

\* C6, amended: the puzzle generatePuzzle returns has at most targetClues
\* nonzero cells, unless the loop has passed all 81 positions; it may then
\* keep more, and none of them can be cleared without a second solution.
C6_AtMostTargetOrExhausted ==
    (pc = "dug")
        => \/ filledCells(puzzle) <= targetClues
           \/ (pos = Cells /\ Irreducible(puzzle))

\* the loop has ended after all 81 positions, and the puzzle has kept more
\* than targetClues clues, none of which can be cleared
C6_Witness ==
    /\ pc = "dug"
    /\ caller = "generatePuzzle"
    /\ pos = Cells
    /\ filledCells(puzzle) > targetClues
    /\ Irreducible(puzzle)

\* ------------------------------------------------------------------------
\* C7
\* ------------------------------------------------------------------------
\* C7: generateFullSolution eventually returns, and the board it returns has
\* every digit exactly once in every row, column and block.
C7_GeneratesSolved ==
    <>[](pc = "generated" /\ IsSolved(genB))

\* generateFullSolution has returned a grid that is not the one the digits in
\* ascending order give
C7_Witness ==
    /\ pc = "generated"
    /\ IsSolved(genB)
    /\ genB # Grid

\* ------------------------------------------------------------------------
\* C8
\* ------------------------------------------------------------------------
\* C8: once loadBoard has succeeded, the masks are in every state exactly the
\* digits present in the rows, columns and blocks of board.
C8_MasksMatchAlways ==
    (caller = "main" /\ loadOk) => MasksMatchBoard

\* the same, up to the return of solve
C8_MasksMatchInSolve ==
    (caller = "main" /\ loadOk /\ pc # "returned") => MasksMatchBoard

\* ------------------------------------------------------------------------
\* C9
\* ------------------------------------------------------------------------
\* C9, as claimed: a dfs invocation that has scanned while some empty cell has
\* no candidate returns as a dead end without placing a digit.
C9_DeadEndAtAnyEmptyMask ==
    [][(pc = "scanned" /\ \E i \in 1..Len(empties) : NoCandidate(i))
          => ReturnsDeadEnd]_vars

\* C9, amended: it does when the cell without candidate comes in empties
\* before every empty cell that has exactly one candidate (such a cell ends
\* the scan, and its digit is placed).
C9_DeadEndBeforeSingle ==
    [][(pc = "scanned"
        /\ \E i \in 1..Len(empties) :
              NoCandidate(i) /\ \A j \in 1..(i - 1) : ~OneCandidate(j))
          => ReturnsDeadEnd]_vars

\* a nested dfs invocation has scanned up to a cell without candidate
C9_Witness ==
    /\ pc = "scanned"
    /\ Len(stack) >= 2
    /\ best.dead
    /\ \E i \in 1..Len(empties) :
          NoCandidate(i) /\ \A j \in 1..(i - 1) : ~OneCandidate(j)

\* ------------------------------------------------------------------------
\* C10
\* ------------------------------------------------------------------------
\* C10: in the digging loop the puzzle never has fewer than targetClues
\* nonzero cells (no clue is cleared at targetClues or below), and the puzzle
\* returned has more than targetClues only after all 81 positions.
C10_NeverBelowTarget ==
    /\ (positions # <<>>) => filledCells(puzzle) >= targetClues
    /\ (pc = "dug" /\ filledCells(puzzle) > targetClues) => pos = Cells

\* the loop has passed all 81 positions and more than targetClues are left
C10_Witness ==
    /\ pc = "dug"
    /\ pos = Cells
    /\ filledCells(puzzle) > targetClues

====
